---- MODULE Spec2Model ----
(***************************************************************************)
(* State-machine model of lcserve: the tracing callback handlers and the   *)
(* process-wide span registry (backend/langchain_helper.py), the WebSocket *)
(* streaming handlers and the print/input interception scope (same file),  *)
(* and the remote deploy commands of the CLI (__main__.py).                *)
(*                                                                         *)
(* The specifications, one per part of the program:                        *)
(*   Spec        the tracing handlers and _span_map                        *)
(*   SpecScope   with BuiltinsWrapper(...): __enter__ and __exit__         *)
(*   SpecInput   the input() calls made while scopes intercept input       *)
(*   SpecStream  the WebSocket streaming handlers                          *)
(*   SpecPrint   the print() calls made while a scope intercepts print     *)
(*   SpecCLI     a remote-deploy subcommand and serve_on_jcloud            *)
(***************************************************************************)
EXTENDS Integers, Sequences, FiniteSets, TLC

(***************************************************************************)
(* Bounds of the model.                                                    *)
(***************************************************************************)
MaxRuns == 2

MaxSpans == 2

RunIds == 1..MaxRuns

SpanIds == 1..MaxSpans

\* None, the value dict.get / dict.pop(run_id, None) give for a missing key.
NoSpan == 0

(***************************************************************************)
(* Handler instances.  tracer: whether the handler was constructed with a  *)
(* tracer (every lifecycle method starts with "if not self.tracer").       *)
(* openai: OpenAITracingCallbackHandler rather than TracingCallbackHandler *)
(* (AsyncTracingCallbackHandler only awaits the same synchronous bodies).  *)
(***************************************************************************)
Handlers == [tracer : BOOLEAN, openai : BOOLEAN]

NoHandler == [tracer |-> FALSE, openai |-> FALSE]

(***************************************************************************)
(* Inputs of the handlers.                                                 *)
(* A start handler can fail before the tracer has opened the span          *)
(* ("pre_span": set_span_in_context / start_as_current_span raise) or in   *)
(* the body of the with statement ("in_span": len() of a prompt that is    *)
(* not sized, json.dumps of inputs that are not serialisable).             *)
(***************************************************************************)
StartFaults == {"none", "pre_span", "in_span"}

\* Faults of the body of on_chain_end / on_tool_end / on_agent_action.
BodyFaults == {"none", "extract"}

(***************************************************************************)
(* The LLMResult handed to on_llm_end, by shape.                           *)
(*   usage "dict":    llm_output["token_usage"] is a mapping               *)
(*   usage "missing": llm_output has no "token_usage" key                  *)
(*   usage "bad":     llm_output["token_usage"] is not a mapping (None)    *)
(*   gens  "bad":     a generation has no .text                            *)
(***************************************************************************)
Responses == [usage : {"dict", "missing", "bad"}, gens : {"ok", "bad"}]

VARIABLES
    span_map,   \* _span_map: run id -> registered span, NoSpan when absent
    spans,      \* span id -> run id it is open for, 0 when not open (never started or ended)
    last,       \* the handler call that ran last: its steps, how it returned, and the span it
                \* opened (start events) or found registered for its run id (the others)
    builtins,   \* builtins.print / builtins.input: 0 the original function, n > 0 the
                \* wrapper object n
    scopes,     \* BuiltinsWrapper instance -> its fields and whether its with-block is active
    locks,      \* InputWrapper object -> the input call holding its recv_lock, 0 when free
    calls,      \* input call -> position in InputWrapper.__acall__, wrapper, reply
    ws_out,     \* messages sent on the WebSocket, in order
    ws_in,      \* text replies the client has sent and no receive_text has taken yet
    stream,     \* the streaming handler call that ran last
    printed,    \* the print() call a PrintWrapper handled last
    cli         \* one invocation of a remote-deploy subcommand

tracingVars == <<span_map, spans, last>>

ioVars == <<builtins, scopes, locks, calls, ws_out, ws_in, stream, printed>>

cliVars == <<cli>>

vars == <<span_map, spans, last, builtins, scopes, locks, calls,
          ws_out, ws_in, stream, printed, cli>>

(***************************************************************************)
(*                       TRACING CALLBACK HANDLERS                         *)
(***************************************************************************)
NoCall == [h |-> NoHandler, ev |-> "none", run |-> 0, span |-> NoSpan,
           raised |-> FALSE, trace |-> <<>>]

TracingInit ==
    /\ span_map = [r \in RunIds |-> NoSpan]
    /\ spans = [s \in SpanIds |-> 0]
    /\ last = NoCall

\* self.tracer.start_as_current_span(...): the tracer hands out a span that is not open yet.
FreeSpans == {s \in SpanIds : spans[s] = 0}

NewSpan == CHOOSE s \in FreeSpans : \A t \in FreeSpans : s <= t

\* _register_span: _span_map[run_id] = span
_register_span(m, run_id, span) == [m EXCEPT ![run_id] = span]

\* _current_span: _span_map.get(run_id)
_current_span(m, run_id) == m[run_id]

\* _end_span, the registry: span = _span_map.pop(run_id, None)
_end_span_map(m, run_id) == [m EXCEPT ![run_id] = NoSpan]

\* _end_span, the span: if span: span.end()
_end_span_spans(sp, span) == IF span /= NoSpan THEN [sp EXCEPT ![span] = 0] ELSE sp

\* What _end_span adds to the steps of the handler that calls it.
_end_span_trace(span) == IF span /= NoSpan THEN <<"pop", "span_end">> ELSE <<"pop">>

Returned(h, ev, run_id, span, trace) ==
    [h |-> h, ev |-> ev, run |-> run_id, span |-> span, raised |-> FALSE, trace |-> trace]

Raised(h, ev, run_id, span, trace) ==
    [h |-> h, ev |-> ev, run |-> run_id, span |-> span, raised |-> TRUE, trace |-> trace]

(***************************************************************************)
(* The common shape of on_llm_start / on_chain_start / on_tool_start:      *)
(*   if not self.tracer: return                                            *)
(*   try: with tracer.start_as_current_span(..., end_on_exit=False) as span:*)
(*            <attributes, events>; [logger.info(TraceInfo)];              *)
(*            self._register_span(run_id, span)                            *)
(*   except Exception: logger.error(...)                                   *)
(* info is the Trace Info steps the body logs before it registers.         *)
(***************************************************************************)
StartBody(h, ev, run_id, fault, info) ==
    IF ~h.tracer
    THEN /\ last' = Returned(h, ev, run_id, NoSpan, <<>>)
         /\ UNCHANGED <<span_map, spans>>
    ELSE IF fault = "pre_span"
    THEN /\ last' = Returned(h, ev, run_id, NoSpan, <<"log_error">>)
         /\ UNCHANGED <<span_map, spans>>
    ELSE /\ FreeSpans /= {}
         /\ spans' = [spans EXCEPT ![NewSpan] = run_id]
         /\ IF fault = "in_span"
            THEN /\ last' = Returned(h, ev, run_id, NewSpan, <<"span_open", "log_error">>)
                 /\ UNCHANGED span_map
            ELSE /\ last' = Returned(h, ev, run_id, NewSpan,
                                     <<"span_open">> \o info \o <<"register">>)
                 /\ span_map' = _register_span(span_map, run_id, NewSpan)

\* Mutant: on_llm_start registers its span without logging a Trace Info record.
on_llm_start_NoInfo(h, run_id, fault) ==
    /\ StartBody(h, "on_llm_start", run_id, fault, <<>>)
    /\ UNCHANGED <<ioVars, cliVars>>

on_llm_start(h, run_id, fault) ==
    /\ StartBody(h, "on_llm_start", run_id, fault, <<"info:on_llm_start">>)
    /\ UNCHANGED <<ioVars, cliVars>>

on_chain_start(h, run_id, fault) ==
    /\ StartBody(h, "on_chain_start", run_id, fault, <<>>)
    /\ UNCHANGED <<ioVars, cliVars>>

on_tool_start(h, run_id, fault) ==
    /\ StartBody(h, "on_tool_start", run_id, fault, <<>>)
    /\ UNCHANGED <<ioVars, cliVars>>

(***************************************************************************)
(* The common shape of the end handlers:                                   *)
(*   try: span = self._current_span(run_id); <body>                        *)
(*   except Exception: logger.error(...)                                   *)
(*   finally: self._end_span(run_id)                                       *)
(* bodyOk: the body ran to its end; with no span it never does, since      *)
(* every body calls a method of span (None has none).  done: its steps.    *)
(***************************************************************************)
EndBody(h, ev, run_id, bodyOk, done) ==
    LET span == _current_span(span_map, run_id)
        body == IF span /= NoSpan /\ bodyOk THEN done ELSE <<"log_error">>
    IN  /\ span_map' = _end_span_map(span_map, run_id)
        /\ spans' = _end_span_spans(spans, span)
        /\ last' = Returned(h, ev, run_id, span, body \o _end_span_trace(span))

\* if not self.tracer: return
NoTracerReturn(h, ev, run_id) ==
    /\ last' = Returned(h, ev, run_id, _current_span(span_map, run_id), <<>>)
    /\ UNCHANGED <<span_map, spans>>

\* response.llm_output["token_usage"], token_usage.items(), [l.text for l in lst]
LlmEndBodyOk(response) == response.usage = "dict" /\ response.gens = "ok"

\* TracingCallbackHandlerMixin.on_llm_end
Mixin_on_llm_end(h, run_id, response) ==
    IF ~h.tracer
    THEN NoTracerReturn(h, "on_llm_end", run_id)
    ELSE EndBody(h, "on_llm_end", run_id, LlmEndBodyOk(response),
                 <<"info:on_llm_end", "add_event">>)

(***************************************************************************)
(* OpenAICallbackHandler.on_llm_end(self, response, ...), the token        *)
(* accounting the OpenAI variant runs first and outside any try: it reads  *)
(* "total_tokens" in token_usage when the key "token_usage" is present,    *)
(* which raises TypeError when token_usage is not a container.             *)
(***************************************************************************)
AccountingRaises(response) == response.usage = "bad"

\* OpenAITracingCallbackHandler.on_llm_end
OpenAI_on_llm_end(h, run_id, response) ==
    IF AccountingRaises(response)
    THEN /\ last' = Raised(h, "on_llm_end", run_id, _current_span(span_map, run_id), <<>>)
         /\ UNCHANGED <<span_map, spans>>
    ELSE Mixin_on_llm_end(h, run_id, response)

on_llm_end(h, run_id, response) ==
    /\ IF h.openai
       THEN OpenAI_on_llm_end(h, run_id, response)
       ELSE Mixin_on_llm_end(h, run_id, response)
    /\ UNCHANGED <<ioVars, cliVars>>

on_chain_end(h, run_id, fault) ==
    /\ IF ~h.tracer
       THEN NoTracerReturn(h, "on_chain_end", run_id)
       ELSE EndBody(h, "on_chain_end", run_id, fault = "none", <<"add_event">>)
    /\ UNCHANGED <<ioVars, cliVars>>

\* on_tool_end has no "if not self.tracer" check.
on_tool_end(h, run_id, fault) ==
    /\ EndBody(h, "on_tool_end", run_id, fault = "none", <<"add_event">>)
    /\ UNCHANGED <<ioVars, cliVars>>

on_agent_action(h, run_id, fault) ==
    /\ IF ~h.tracer
       THEN last' = Returned(h, "on_agent_action", run_id,
                             _current_span(span_map, run_id), <<>>)
       ELSE LET span == _current_span(span_map, run_id)
            IN  last' = Returned(h, "on_agent_action", run_id, span,
                                 IF span /= NoSpan /\ fault = "none"
                                 THEN <<"add_event">> ELSE <<"log_error">>)
    /\ UNCHANGED <<span_map, spans, ioVars, cliVars>>

TracingNext ==
    \/ \E h \in Handlers, r \in RunIds, f \in StartFaults : on_llm_start(h, r, f)
    \/ \E h \in Handlers, r \in RunIds, f \in StartFaults : on_chain_start(h, r, f)
    \/ \E h \in Handlers, r \in RunIds, f \in StartFaults : on_tool_start(h, r, f)
    \/ \E h \in Handlers, r \in RunIds, resp \in Responses : on_llm_end(h, r, resp)
    \/ \E h \in Handlers, r \in RunIds, f \in BodyFaults : on_chain_end(h, r, f)
    \/ \E h \in Handlers, r \in RunIds, f \in BodyFaults : on_tool_end(h, r, f)
    \/ \E h \in Handlers, r \in RunIds, f \in BodyFaults : on_agent_action(h, r, f)

(***************************************************************************)
(*            WEBSOCKET STREAMING AND PRINT/INPUT INTERCEPTION             *)
(***************************************************************************)
MaxScopes == 2

MaxCalls == 3

MaxMsgs == 3

ScopeIds == 1..MaxScopes


CallIds == 1..MaxCalls

\* The function builtins.print / builtins.input is bound to before any scope is entered.
Original == 0

\* self._print / self._input before __enter__ has assigned them.
Unset == -1

(***************************************************************************)
(* A BuiltinsWrapper instance: its constructor arguments wrap_print and    *)
(* wrap_input, its fields _print and _input, and the state of the with     *)
(* statement that uses it (at_entry: the bindings that statement found).   *)
(***************************************************************************)
\* BuiltinsWrapper.__init__
NewScope(wrap_print, wrap_input) ==
    [wrap_print |-> wrap_print, wrap_input |-> wrap_input,
     _print |-> Unset, _input |-> Unset, st |-> "new",
     at_entry |-> [print |-> Original, input |-> Original]]

(***************************************************************************)
(* Object identity: the with statement s constructs PrintWrapper object    *)
(* PrintWrapperOf(s) and InputWrapper object InputWrapperOf(s), each       *)
(* distinct from every other object and from the original functions.       *)
(***************************************************************************)
PrintWrapperOf(s) == 2 * s - 1

InputWrapperOf(s) == 2 * s

InputWrappers == {InputWrapperOf(s) : s \in ScopeIds}

\* An input() call that has not been made yet.
NoInput == [pc |-> "idle", w |-> 0, reply |-> 0]

NoStream == [ev |-> "none", sync |-> FALSE, output_model |-> "str", token |-> "hello",
             fallback |-> FALSE, raised |-> FALSE]

\* No print() call has reached a PrintWrapper yet.
NoPrint == [output_model |-> "str", args |-> << >>, exc |-> "none", count |-> 0]

IOInit ==
    /\ builtins = [print |-> Original, input |-> Original]
    /\ scopes = [s \in ScopeIds |-> NewScope(TRUE, TRUE)]
    /\ locks = [w \in InputWrappers |-> 0]
    /\ calls = [c \in CallIds |-> NoInput]
    /\ ws_out = <<>>
    /\ ws_in = <<>>
    /\ stream = NoStream
    /\ printed = NoPrint

\* BuiltinsWrapper.__enter__: the bindings of builtins after it
EnterBuiltins(s, sc) ==
    [print |-> IF sc.wrap_print THEN PrintWrapperOf(s) ELSE builtins.print,
     input |-> IF sc.wrap_input THEN InputWrapperOf(s) ELSE builtins.input]

\* Mutant: __exit__ restores nothing when the body raised.
ExitBuiltins_OnlyOnSuccess(sc, exc) ==
    [print |-> IF sc.wrap_print /\ ~exc THEN sc._print ELSE builtins.print,
     input |-> IF sc.wrap_input /\ ~exc THEN sc._input ELSE builtins.input]

\* BuiltinsWrapper.__exit__: the bindings of builtins after it, whatever exc_type is
ExitBuiltins(sc, exc) ==
    [print |-> IF sc.wrap_print THEN sc._print ELSE builtins.print,
     input |-> IF sc.wrap_input THEN sc._input ELSE builtins.input]

(***************************************************************************)
(* with BuiltinsWrapper(..., wrap_print, wrap_input): the with statement   *)
(* constructs the instance, calls __enter__, runs its body, and calls      *)
(* __exit__ when the body returns (exc FALSE) and when it raises (exc      *)
(* TRUE).  s is one execution of such a with statement.                    *)
(***************************************************************************)
BuiltinsWrapper_enter(s, wrap_print, wrap_input) ==
    LET sc == NewScope(wrap_print, wrap_input)
    IN  /\ scopes[s].st = "new"
        /\ scopes' = [scopes EXCEPT ![s] =
               [sc EXCEPT !._print = IF sc.wrap_print THEN builtins.print ELSE @,
                          !._input = IF sc.wrap_input THEN builtins.input ELSE @,
                          !.st = "active",
                          !.at_entry = builtins]]
        /\ builtins' = EnterBuiltins(s, sc)
        /\ UNCHANGED <<locks, calls, ws_out, ws_in, stream, printed, tracingVars, cliVars>>

BuiltinsWrapper_exit(s, exc) ==
    LET sc == scopes[s]
    IN  /\ sc.st = "active"
        /\ builtins' = ExitBuiltins(sc, exc)
        /\ scopes' = [scopes EXCEPT ![s].st = IF exc THEN "raised" ELSE "returned"]
        /\ UNCHANGED <<locks, calls, ws_out, ws_in, stream, printed, tracingVars, cliVars>>

ScopeNext ==
    \/ \E s \in ScopeIds, wp \in BOOLEAN, wi \in BOOLEAN : BuiltinsWrapper_enter(s, wp, wi)
    \/ \E s \in ScopeIds, exc \in BOOLEAN : BuiltinsWrapper_exit(s, exc)

(***************************************************************************)
(* InputWrapper.  __call__ hands __acall__ to the owning loop and blocks   *)
(* on its result; __acall__ is                                             *)
(*     async with self.recv_lock:                                          *)
(*         await self.websocket.send_json({prompt})                        *)
(*     return await self.websocket.receive_text()                          *)
(* pc of an input() call: idle -> lock -> send -> recv -> done.            *)
(* An input() call goes to the InputWrapper object w that builtins.input   *)
(* is bound to when it is made: one of the objects the scopes constructed, *)
(* each with an asyncio.Lock() of its own and all on the same connection.  *)
(***************************************************************************)
\* InputWrapper.__call__: run_coroutine_threadsafe(self.__acall__(prompt), self.loop)
InputWrapper_call(c, w) ==
    /\ calls[c].pc = "idle"
    /\ calls' = [calls EXCEPT ![c] = [pc |-> "lock", w |-> w, reply |-> 0]]
    /\ UNCHANGED <<builtins, scopes, locks, ws_out, ws_in, stream, printed,
                   tracingVars, cliVars>>

\* Mutant: the prompt is sent without taking recv_lock.
LockFree_NoLock(w) == TRUE

\* asyncio.Lock: acquire() goes through only while no one holds the lock
LockFree(w) == locks[w] = 0

\* async with self.recv_lock: entered, send_json begun
InputWrapper_acquire(c) ==
    /\ calls[c].pc = "lock"
    /\ LockFree(calls[c].w)
    /\ locks' = [locks EXCEPT ![calls[c].w] = c]
    /\ calls' = [calls EXCEPT ![c].pc = "send"]
    /\ UNCHANGED <<builtins, scopes, ws_out, ws_in, stream, printed, tracingVars, cliVars>>

\* send_json completes, the async with block is left (the lock released), receive_text begins
InputWrapper_sent(c) ==
    /\ calls[c].pc = "send"
    /\ ws_out' = Append(ws_out, [type |-> "prompt", call |-> c])
    /\ locks' = [locks EXCEPT ![calls[c].w] = 0]
    /\ calls' = [calls EXCEPT ![c].pc = "recv"]
    /\ UNCHANGED <<builtins, scopes, ws_in, stream, printed, tracingVars, cliVars>>

\* await self.websocket.receive_text() returns the next text message of the connection,
\* and .result() hands it to the thread that called input()
InputWrapper_receive(c) ==
    /\ calls[c].pc = "recv"
    /\ ws_in /= <<>>
    /\ calls' = [calls EXCEPT ![c].pc = "done", ![c].reply = Head(ws_in)]
    /\ ws_in' = Tail(ws_in)
    /\ UNCHANGED <<builtins, scopes, locks, ws_out, stream, printed, tracingVars, cliVars>>

\* The input() calls whose prompt the client has answered: reply c answers the prompt of c.
Answered == {ws_in[i] : i \in 1..Len(ws_in)} \cup {calls[c].reply : c \in CallIds}

\* The client answers, with a raw text message, a prompt it was shown and has not answered.
ClientReply(c) ==
    /\ \E i \in 1..Len(ws_out) : ws_out[i] = [type |-> "prompt", call |-> c]
    /\ c \notin Answered
    /\ ws_in' = Append(ws_in, c)
    /\ UNCHANGED <<builtins, scopes, locks, calls, ws_out, stream, printed,
                   tracingVars, cliVars>>

InputNext ==
    \/ \E c \in CallIds, w \in InputWrappers : InputWrapper_call(c, w)
    \/ \E c \in CallIds : InputWrapper_acquire(c)
    \/ \E c \in CallIds : InputWrapper_sent(c)
    \/ \E c \in CallIds : InputWrapper_receive(c)
    \/ \E c \in CallIds : ClientReply(c)

(***************************************************************************)
(* Chunks handed to the streaming handlers, and the output-shaping models  *)
(* by the type they declare for result: a str field takes every chunk as   *)
(* it is, an int field takes a chunk of digits and converts it, and        *)
(* rejects any other with ValidationError.                                 *)
(***************************************************************************)
Tokens == {"hello", "42"}

OutputModels == {"str", "int"}

Rejects(output_model, token) == output_model = "int" /\ token /= "42"

\* self.output_model(result=token, error="").dict()
Shape(output_model, token) ==
    [result |-> IF output_model = "int" THEN "int(42)" ELSE token, error |-> ""]

(***************************************************************************)
(* AsyncStreamingWebsocketCallbackHandler.on_llm_new_token / on_text:      *)
(*     try: data = self.output_model(result=token, error="").dict()        *)
(*     except ValidationError: data = {"result": token, "error": ""}       *)
(*     await self.websocket.send_json(data)                                *)
(* StreamingWebsocketCallbackHandler runs the same coroutine to its end    *)
(* with asyncio.run (sync TRUE).  sends: the data of each send_json call.  *)
(***************************************************************************)
\* Mutant: no except ValidationError clause, a rejected chunk sends nothing.
StreamSends_NoFallback(output_model, token) ==
    IF Rejects(output_model, token)
    THEN << >>
    ELSE << Shape(output_model, token) >>

StreamSends(output_model, token) ==
    IF Rejects(output_model, token)
    THEN << [result |-> token, error |-> ""] >>
    ELSE << Shape(output_model, token) >>

StreamHandler(ev, sync, output_model, token) ==
    LET sends == StreamSends(output_model, token)
    IN  /\ Len(ws_out) + Len(sends) <= MaxMsgs
        /\ ws_out' = ws_out \o [i \in 1..Len(sends) |-> [type |-> "json", data |-> sends[i]]]
        /\ stream' = [ev |-> ev, sync |-> sync, output_model |-> output_model,
                      token |-> token, fallback |-> Rejects(output_model, token),
                      raised |-> FALSE]
        /\ UNCHANGED <<builtins, scopes, locks, calls, ws_in, printed, tracingVars, cliVars>>

on_llm_new_token(sync, output_model, token) ==
    StreamHandler("on_llm_new_token", sync, output_model, token)

on_text(sync, output_model, text) ==
    StreamHandler("on_text", sync, output_model, text)

StreamNext ==
    \/ \E sync \in BOOLEAN, m \in OutputModels, t \in Tokens : on_llm_new_token(sync, m, t)
    \/ \E sync \in BOOLEAN, m \in OutputModels, t \in Tokens : on_text(sync, m, t)

(***************************************************************************)
(* PrintWrapper, the object builtins.print is bound to inside a scope.     *)
(*     def __call__(self, *args, **kwds):                                  *)
(*         asyncio.run_coroutine_threadsafe(self.__acall__(...), self.loop)*)
(*     async def __acall__(self, *args, **kwds):                           *)
(*         await self.websocket.send_json(                                 *)
(*             self.output_model(result="", error="",                      *)
(*                               stdout=" ".join(args)).dict())            *)
(* __call__ drops the future it gets: an exception raised in __acall__     *)
(* stays in that future, and print() returns None to its caller.           *)
(* The positional arguments of a print call, each by its type and text.    *)
(***************************************************************************)
StrArg(text) == [isstr |-> TRUE, text |-> text]

IntArg(text) == [isstr |-> FALSE, text |-> text]

PrintArgs == { << >>, << StrArg("hello") >>, << StrArg("hello"), StrArg("42") >>,
               << IntArg("42") >> }

\* " ".join(args) raises TypeError when an argument is not a str
JoinRaises(args) == \E i \in 1..Len(args) : ~args[i].isstr

RECURSIVE Join(_)
\* " ".join(args)
Join(args) ==
    IF Len(args) = 0 THEN ""
    ELSE IF Len(args) = 1 THEN args[1].text
    ELSE args[1].text \o " " \o Join(Tail(args))

\* self.output_model(result="", error="", stdout=...) raises ValidationError
PrintRejects(output_model) == Rejects(output_model, "")

\* The data of each send_json call of PrintWrapper.__acall__
PrintSends(output_model, args) ==
    IF JoinRaises(args) \/ PrintRejects(output_model)
    THEN << >>
    ELSE << [result |-> "", error |-> "", stdout |-> Join(args)] >>

\* PrintWrapper.__call__ and the coroutine it schedules, run to its end by the loop
PrintWrapper_call(output_model, args) ==
    LET sends == PrintSends(output_model, args)
    IN  /\ Len(ws_out) + Len(sends) <= MaxMsgs
        /\ ws_out' = ws_out \o [i \in 1..Len(sends) |-> [type |-> "json", data |-> sends[i]]]
        /\ printed' = [output_model |-> output_model, args |-> args,
                       exc |-> IF JoinRaises(args) THEN "TypeError"
                               ELSE IF PrintRejects(output_model) THEN "ValidationError"
                               ELSE "none",
                       count |-> (printed.count + 1) % 2]
        /\ UNCHANGED <<builtins, scopes, locks, calls, ws_in, stream, tracingVars, cliVars>>

PrintNext ==
    \E m \in OutputModels, args \in PrintArgs : PrintWrapper_call(m, args)

(***************************************************************************)
(*                     REMOTE DEPLOY COMMANDS OF THE CLI                   *)
(***************************************************************************)
\* The subcommands decorated with add_jcloud_shared_options.
DeployCommands == {"jcloud", "babyagi", "pdf_qna", "autogpt", "pandas_ai"}

\* babyagi and autogpt merge --requirements into the bundled requirements.txt first.
MergesRequirements(cmd) == cmd \in {"babyagi", "autogpt"}

(***************************************************************************)
(* --config: the path of a config file (click.Path(exists=True)), NoConfig *)
(* when the option is not given (the callback gets None).                  *)
(***************************************************************************)
ConfigPaths == {"jcloud.yml"}

NoConfig == ""

\* Instance tiers and autoscale minimums a config file may declare.
Tiers == {"C1", "X9"}

AutoscaleMins == {-1, 0}

\* str() of a value inside an f-string
Str(v) == CASE v = -1 -> "-1" [] v = 0 -> "0" [] OTHER -> "?"

NoException == [exc |-> "none", value |-> ""]

(***************************************************************************)
(* What the call validate_jcloud_config(value) can do: return, raise       *)
(* InvalidInstanceError (e.instance a tier of the file) or raise           *)
(* InvalidAutoscaleMinError (e.min a minimum of the file).                 *)
(***************************************************************************)
ValidationOutcomes ==
    {NoException}
      \cup {[exc |-> "InvalidInstanceError", value |-> t] : t \in Tiers}
      \cup {[exc |-> "InvalidAutoscaleMinError", value |-> Str(m)] : m \in AutoscaleMins}

\* The text of click.BadParameter for each typed condition, as the pieces of the f-string.
BadParameterMessage(e) ==
    IF e.exc = "InvalidInstanceError"
    THEN <<"Invalid instance '", e.value,
           "' found in config file', please refer to the documentation of the tiers.">>
    ELSE <<"Invalid instance '", e.value,
           "' found in config file', it should be a number >= 0.">>

\* Mutant: the callback has no except clause for InvalidAutoscaleMinError.
validate_jcloud_config_callback_NoMinClause(value, e) ==
    IF value = NoConfig
    THEN [exc |-> "none", msg |-> <<>>]
    ELSE IF e.exc = "InvalidInstanceError"
    THEN [exc |-> "BadParameter", msg |-> BadParameterMessage(e)]
    ELSE [exc |-> e.exc, msg |-> <<>>]

(***************************************************************************)
(* validate_jcloud_config_callback(ctx, param, value), e being what        *)
(* validate_jcloud_config does on value: the exception that leaves the     *)
(* callback, "none" when it returns.                                       *)
(***************************************************************************)
validate_jcloud_config_callback(value, e) ==
    IF value = NoConfig
    THEN [exc |-> "none", msg |-> <<>>]
    ELSE IF e.exc = "InvalidInstanceError"
    THEN [exc |-> "BadParameter", msg |-> BadParameterMessage(e)]
    ELSE IF e.exc = "InvalidAutoscaleMinError"
    THEN [exc |-> "BadParameter", msg |-> BadParameterMessage(e)]
    ELSE [exc |-> e.exc, msg |-> <<>>]

NoCli == [pc |-> "idle", cmd |-> "jcloud", config |-> NoConfig, raised |-> NoException,
          error |-> [exc |-> "none", msg |-> <<>>], events |-> <<>>]

CliInit == cli = NoCli

(***************************************************************************)
(* click parses the options of the subcommand, running the callback of     *)
(* --config, before it invokes the command function.                       *)
(***************************************************************************)
Invoke(cmd, value) ==
    /\ cli.pc \in {"idle", "done", "failed", "aborted"}
    /\ \E e \in (IF value = NoConfig THEN {NoException} ELSE ValidationOutcomes) :
          LET out == validate_jcloud_config_callback(value, e)
          IN  cli' = [pc |-> IF out.exc = "none" THEN "invoked" ELSE "aborted",
                      cmd |-> cmd, config |-> value, raised |-> e,
                      error |-> out, events |-> <<>>]
    /\ UNCHANGED <<tracingVars, ioVars>>

(***************************************************************************)
(* The calls of a remote-deploy command, in the order its code makes them: *)
(* update_requirements (babyagi and autogpt only), then in serve_on_jcloud *)
(* get_app_dir with resolve_jcloud_config, push_app_to_hubble,             *)
(* get_flow_dict, await deploy_app_on_jcloud, await                        *)
(* get_app_status_on_jcloud.  Each is called when the one before it has    *)
(* returned; none is inside a try.                                         *)
(***************************************************************************)
Stages == <<"requirements", "get_app_dir", "push", "get_flow_dict", "submit", "status">>

FirstStage(cmd) == IF MergesRequirements(cmd) THEN 1 ELSE 2

\* Mutant: a failure of a stage is swallowed and the pipeline goes on.
AfterStage_SwallowsFailure(i, ok) ==
    IF i = Len(Stages) THEN "done" ELSE "at_" \o Stages[i + 1]

\* Where the command is once stage i has ended: a failure propagates, nothing follows it.
AfterStage(i, ok) ==
    IF ~ok THEN "failed"
    ELSE IF i = Len(Stages) THEN "done"
    ELSE "at_" \o Stages[i + 1]

StageAt(pc) == CHOOSE i \in 1..Len(Stages) : pc \in {"at_" \o Stages[i], "in_" \o Stages[i]}

\* The command function begins: serve_*_on_jcloud
CommandBody ==
    /\ cli.pc = "invoked"
    /\ cli' = [cli EXCEPT !.pc = "at_" \o Stages[FirstStage(cli.cmd)]]
    /\ UNCHANGED <<tracingVars, ioVars>>

\* the next call of the command is made
StageStart ==
    /\ \E i \in 1..Len(Stages) : cli.pc = "at_" \o Stages[i]
    /\ cli' = [cli EXCEPT !.pc = "in_" \o Stages[StageAt(cli.pc)],
                          !.events = Append(@, [stage |-> Stages[StageAt(cli.pc)],
                                                what |-> "start"])]
    /\ UNCHANGED <<tracingVars, ioVars>>

\* the call returns (ok) or raises
StageEnd(ok) ==
    /\ \E i \in 1..Len(Stages) : cli.pc = "in_" \o Stages[i]
    /\ cli' = [cli EXCEPT !.pc = AfterStage(StageAt(cli.pc), ok),
                          !.events = Append(@, [stage |-> Stages[StageAt(cli.pc)],
                                                what |-> IF ok THEN "return" ELSE "raise"])]
    /\ UNCHANGED <<tracingVars, ioVars>>

CliNext ==
    \/ \E cmd \in DeployCommands, value \in ConfigPaths \cup {NoConfig} : Invoke(cmd, value)
    \/ CommandBody
    \/ StageStart
    \/ \E ok \in BOOLEAN : StageEnd(ok)

(***************************************************************************)
(*                            SPECIFICATIONS                               *)
(***************************************************************************)
Init == TracingInit /\ IOInit /\ CliInit

Next == TracingNext

Spec == Init /\ [][Next]_vars

SpecScope == Init /\ [][ScopeNext]_vars

SpecInput == Init /\ [][InputNext]_vars

SpecStream == Init /\ [][StreamNext]_vars

SpecPrint == Init /\ [][PrintNext]_vars

SpecCLI == Init /\ [][CliNext]_vars

(***************************************************************************)
(*                                CLAIMS                                   *)
(***************************************************************************)
Range(seq) == {seq[i] : i \in 1..Len(seq)}

CountOf(seq, x) == Cardinality({i \in 1..Len(seq) : seq[i] = x})

\* The first position of x in seq, Len(seq) + 1 when it has none.
IndexOf(seq, x) ==
    IF x \in Range(seq) THEN CHOOSE i \in 1..Len(seq) : seq[i] = x /\ \A j \in 1..(i - 1) : seq[j] /= x
    ELSE Len(seq) + 1

StartEvents == {"on_llm_start", "on_chain_start", "on_tool_start"}

EndEvents == {"on_llm_end", "on_chain_end", "on_tool_end"}

EndOf(ev) ==
    CASE ev = "on_llm_start" -> "on_llm_end"
      [] ev = "on_chain_start" -> "on_chain_end"
      [] ev = "on_tool_start" -> "on_tool_end"
      [] OTHER -> "none"

TraceInfo(ev) == "info:" \o ev

(***************************************************************************)
(* C1.  A start event followed by the matching end event (same handler,    *)
(* same kind of call, same run identifier) leaves the registry with no     *)
(* entry for that identifier, and the pair leaves the entries of the other *)
(* identifiers as they were.  Stated for every step that delivers the end  *)
(* event right after its start event.                                      *)
(***************************************************************************)
C1_StartEndLeavesNoEntry ==
    [][(/\ last.ev \in StartEvents
        /\ last'.ev = EndOf(last.ev)
        /\ last'.h = last.h
        /\ last'.run = last.run)
       => (/\ span_map'[last.run] = NoSpan
           /\ \A q \in RunIds \ {last.run} : span_map'[q] = span_map[q])]_vars

(***************************************************************************)
(* C2.  No tracing lifecycle handler ever raises to the engine that called *)
(* it: whatever fails inside it is caught, logged and suppressed.          *)
(***************************************************************************)
C2_HandlersNeverRaise == ~last.raised

(***************************************************************************)
(* C3.  An end event for a run identifier with no registered span does not *)
(* raise, logs the failure, and leaves the registry unchanged.             *)
(***************************************************************************)
C3_EndWithoutStartTolerated ==
    [][(/\ last'.ev \in EndEvents
        /\ span_map[last'.run] = NoSpan)
       => (/\ ~last'.raised
           /\ "log_error" \in Range(last'.trace)
           /\ span_map' = span_map)]_vars

(***************************************************************************)
(* C8.  In every reachable state at most one span is open (started and not *)
(* yet ended) per run identifier.                                          *)
(***************************************************************************)
C8_OneOpenSpanPerRun ==
    \A r \in RunIds : Cardinality({s \in SpanIds : spans[s] = r}) <= 1

C4_ExitRestoresBindings ==
    [][\A s \in ScopeIds :
          (/\ scopes[s].st = "active"
           /\ scopes'[s].st \in {"returned", "raised"}
           /\ scopes[s].wrap_print
           /\ scopes[s].wrap_input)
          => builtins' = scopes[s].at_entry]_vars

\* A scope entered inside another one has ended by an exception and the bindings are
\* the outer scope's wrappers again.
C4_Witness ==
    \E s \in ScopeIds :
        /\ scopes[s].st = "raised"
        /\ scopes[s].wrap_print /\ scopes[s].wrap_input
        /\ builtins = scopes[s].at_entry
        /\ builtins.print /= Original /\ builtins.input /= Original

(***************************************************************************)
(* C5.  In a run of the deploy pipeline the flow is submitted only after   *)
(* push-to-registry has returned and status is polled only after the       *)
(* submission has returned; a stage that has started is the only one       *)
(* running until it ends; and when a stage fails the pipeline has failed   *)
(* and no later stage is started.                                          *)
(***************************************************************************)
StageEvent(stage, what) == [stage |-> stage, what |-> what]

C5_StagesOrdered ==
    LET ev == cli.events
        Before(a, b) == \A i \in 1..Len(ev) : ev[i] = b => \E j \in 1..(i - 1) : ev[j] = a
    IN  /\ Before(StageEvent("push", "return"), StageEvent("submit", "start"))
        /\ Before(StageEvent("submit", "return"), StageEvent("status", "start"))
        /\ \A i \in 1..Len(ev) :
              /\ (ev[i].what = "start" /\ i < Len(ev))
                    => ev[i + 1].stage = ev[i].stage /\ ev[i + 1].what \in {"return", "raise"}
              /\ ev[i].what = "raise" => i = Len(ev) /\ cli.pc = "failed"

\* The submission has failed after a push that returned: the pipeline has failed
\* without polling the status.
C5_Witness ==
    /\ cli.pc = "failed"
    /\ cli.events = <<StageEvent("get_app_dir", "start"), StageEvent("get_app_dir", "return"),
                      StageEvent("push", "start"), StageEvent("push", "return"),
                      StageEvent("get_flow_dict", "start"), StageEvent("get_flow_dict", "return"),
                      StageEvent("submit", "start"), StageEvent("submit", "raise")>>

(***************************************************************************)
(* C6.  For every remote-deploy subcommand, when validation of the config  *)
(* file raises InvalidInstanceError or InvalidAutoscaleMinError the        *)
(* command aborts with a BadParameter error whose message contains the     *)
(* tier or value the condition carries, no stage of the pipeline is run,   *)
(* and the typed condition does not leave the command.                     *)
(***************************************************************************)
C6_InvalidConfigAborts ==
    cli.raised.exc \in {"InvalidInstanceError", "InvalidAutoscaleMinError"}
       => /\ cli.pc = "aborted"
          /\ cli.error.exc = "BadParameter"
          /\ cli.raised.value \in Range(cli.error.msg)
          /\ cli.events = <<>>

\* deploy autogpt --config with a negative autoscale minimum has aborted.
C6_Witness ==
    /\ cli.cmd = "autogpt"
    /\ cli.raised = [exc |-> "InvalidAutoscaleMinError", value |-> "-1"]
    /\ cli.pc = "aborted"
    /\ cli.error.exc = "BadParameter"
    /\ "-1" \in Range(cli.error.msg)

(***************************************************************************)
(* C7.  A streaming handler (on_llm_new_token, on_text, asynchronous or    *)
(* synchronous) given a chunk the output model rejects sends exactly one   *)
(* JSON message, whose result is that chunk and whose error is empty, and  *)
(* does not raise.                                                         *)
(***************************************************************************)
C7_RejectedChunkStillSent ==
    [][(/\ (stream' /= stream \/ ws_out' /= ws_out)
        /\ Rejects(stream'.output_model, stream'.token))
       => (/\ ws_out' = Append(ws_out, [type |-> "json",
                                        data |-> [result |-> stream'.token, error |-> ""]])
           /\ ~stream'.raised)]_vars

\* The synchronous on_text has sent a chunk its output model rejected.
C7_Witness ==
    /\ stream.ev = "on_text" /\ stream.sync
    /\ stream.fallback
    /\ Len(ws_out) > 0
    /\ ws_out[Len(ws_out)] = [type |-> "json", data |-> [result |-> "hello", error |-> ""]]

(***************************************************************************)
(* C10.  Among the input calls of one interception scope at most one is    *)
(* sending its prompt at any time, and a call waits for (or has got) its   *)
(* reply only when its own prompt is on the wire.                          *)
(***************************************************************************)
C10_PromptSendsExclusive ==
    /\ \A w \in InputWrappers :
          Cardinality({c \in CallIds : calls[c].pc = "send" /\ calls[c].w = w}) <= 1
    /\ \A c \in CallIds :
          calls[c].pc \in {"recv", "done"} => [type |-> "prompt", call |-> c] \in Range(ws_out)

\* Two input calls of one scope: one is sending its prompt, the other waits for the lock.
C10_Witness ==
    \E c \in CallIds, d \in CallIds :
        /\ calls[c].pc = "send"
        /\ calls[d].pc = "lock"
        /\ calls[c].w = calls[d].w

(***************************************************************************)
(* C11.  A print call whose payload the output-shaping model rejects still *)
(* delivers one message on the WebSocket: a dictionary that carries the    *)
(* printed text.                                                           *)
(***************************************************************************)
C11_RejectedPrintStillSent ==
    [][(/\ printed' /= printed
        /\ printed'.exc = "ValidationError")
       => (/\ Len(ws_out') = Len(ws_out) + 1
           /\ LET data == ws_out'[Len(ws_out')].data
              IN  \E f \in DOMAIN data : data[f] = Join(printed'.args))]_vars

(***************************************************************************)
(* C12.  Whatever the order in which the with statements enter and exit    *)
(* their scopes, overlapping without nesting included, once no scope is    *)
(* active any more print and input are bound to the original functions.    *)
(***************************************************************************)
C12_AllExitedRestoresOriginals ==
    (\A s \in ScopeIds : scopes[s].st /= "active")
        => builtins = [print |-> Original, input |-> Original]

(***************************************************************************)
(* C13.  Between handler calls every span that is open is registered in    *)
(* the span registry under the run identifier it was opened for: a start   *)
(* handler that returns has registered or ended the span it opened, also   *)
(* when its body raised after opening it.                                  *)
(***************************************************************************)
C13_OpenSpansRegistered ==
    \A s \in SpanIds : spans[s] /= 0 => span_map[spans[s]] = s

(***************************************************************************)
(* C14.  An input call that has returned has returned the reply the client *)
(* sent in answer to that call's own prompt, also when other input calls   *)
(* are in flight on the same connection.                                   *)
(***************************************************************************)
C14_ReplyGoesToItsCall ==
    \A c \in CallIds : calls[c].pc = "done" => calls[c].reply = c

(***************************************************************************)
(* C15.  A lifecycle handler of a tracing handler constructed without a    *)
(* tracer returns with the span registry exactly as it was, the entries    *)
(* other handlers registered under the same run identifier included.       *)
(***************************************************************************)
C15_TracerlessLeavesRegistry ==
    [][~last'.h.tracer => span_map' = span_map]_vars

====
